---- MODULE Spec2Model ----
(***************************************************************************)
(* A model of dashboard/app.py: the Palmer Station temperature dashboard.  *)
(*                                                                         *)
(* The program is a Shiny Express session: a module script that loads the  *)
(* data, a reactive calc that pushes one reading per 3-second invalidation *)
(* into a bounded deque, a reactive calc that filters the historical data, *)
(* and the render functions (views) that read them.                        *)
(*                                                                         *)
(* Temperatures are integers in tenths of a degree (the feed's scalar in   *)
(* hundredths), the clock counts SubSec units per second, and a formatted  *)
(* timestamp "%Y-%m-%d %H:%M:%S" is the tuple of its six numeric fields.   *)
(***************************************************************************)
EXTENDS Integers, Sequences, FiniteSets, TLC

VARIABLES
    pc,                     \* the module script: "load", "running", "crashed"
    now,                    \* datetime.now(): clock units since StartDate 00:00:00
    current_temperature_2m, \* app.py:67
    minutely_15_dataframe,  \* app.py:81
    heap,                   \* object store: heap[r] is the content of deque r
    calcValid,              \* reactive_calc_combined holds a cached value
    calcValue,              \* the cached tuple (deque_snapshot, df, latest)
    calcTimer,              \* deadline of the calc's invalidate_later, or NoTimer
    weatherTimer,           \* update_weather's invalidate_later is pending
    weatherStale,           \* update_weather is invalidated and will re-run
    input_source,           \* input.source()
    input_data,             \* input.data()
    input_time,             \* input.time()
    stale,                  \* the views that are invalidated
    deps,                   \* the views that depend on reactive_calc_combined
    out,                    \* what each view rendered last
    historical_df,          \* app.py:29, rows of the historical dataset
    filteredValid,          \* filtered_historical_df holds a cached value
    filteredValue,          \* the cached filtered frame
    histDeps,               \* the views that depend on filtered_historical_df
    pushed,                 \* history: every reading appended so far
    returned,               \* history: the deque_snapshot of every tuple the calc returned
    ticks                   \* history: fires of the calc's timer

pipeVars == <<pc, now, current_temperature_2m, minutely_15_dataframe, heap,
              calcValid, calcValue, calcTimer, weatherTimer, weatherStale,
              input_source, input_data, pushed, returned, ticks>>
viewVars == <<stale, deps, out>>
histVars == <<historical_df, input_time, filteredValid, filteredValue, histDeps>>
vars == <<pipeVars, viewVars, histVars>>

\* What no execution of a view changes.
envVars == <<pc, now, current_temperature_2m, minutely_15_dataframe,
             weatherTimer, weatherStale, input_source, input_data, input_time,
             historical_df, ticks>>

NoTimer == 0 - 1

(***************************************************************************)
(* Bounds of the model.                                                    *)
(***************************************************************************)
SubSec == 2          \* clock units per second
MaxTicks == 2        \* fires of the 3-second timer in Spec
MaxSoakTicks == 52   \* fires of the 3-second timer in SpecBuffer
MaxRunLen == 14      \* months in a monthly historical dataset
MaxRecs == 2         \* rows in a free-form historical dataset

(***************************************************************************)
(* Program constants.                                                      *)
(***************************************************************************)
UPDATE_INTERVAL_SECS == 3
DEQUE_SIZE == 50
ROLLING_WINDOW == 12
STATION_OFFSET_HOURS == 3

(***************************************************************************)
(* Calendar arithmetic of datetime.                                        *)
(***************************************************************************)
IsLeap(y) == (y % 4 = 0 /\ y % 100 # 0) \/ y % 400 = 0

DaysInMonth(y, m) ==
    IF m = 2 THEN (IF IsLeap(y) THEN 29 ELSE 28)
    ELSE IF m \in {4, 6, 9, 11} THEN 30 ELSE 31

\* The date n days after date d = <<year, month, day>>.
RECURSIVE AddDays(_, _)
AddDays(d, n) ==
    LET left == DaysInMonth(d[1], d[2]) - d[3]
    IN IF n <= left THEN <<d[1], d[2], d[3] + n>>
       ELSE AddDays(IF d[2] < 12 THEN <<d[1], d[2] + 1, 1>> ELSE <<d[1] + 1, 1, 1>>,
                    n - left - 1)

\* The day the clock counts from, and the instant the session's script starts.
StartDate == <<2024, 2, 29>>
StartClock == (23 * 3600 + 59 * 60 + 58) * SubSec

\* datetime.now() as a datetime object: the calendar fields of the clock.
DatetimeNow(t) ==
    LET secs == t \div SubSec
        date == AddDays(StartDate, secs \div 86400)
        rest == secs % 86400
    IN [year |-> date[1], month |-> date[2], day |-> date[3],
        hour |-> rest \div 3600, minute |-> (rest % 3600) \div 60,
        second |-> rest % 60, micro |-> (t % SubSec)]

\* dt.strftime("%Y-%m-%d %H:%M:%S"): the six fields, the sub-second part dropped.
Strftime(dt) == <<dt.year, dt.month, dt.day, dt.hour, dt.minute, dt.second>>

\* datetime.strptime(s, "%Y-%m-%d %H:%M:%S")
Strptime(s) ==
    [year |-> s[1], month |-> s[2], day |-> s[3],
     hour |-> s[4], minute |-> s[5], second |-> s[6], micro |-> 0]

\* utc_time.replace(hour=(utc_time.hour - 3) % 24): only the hour field changes.
ReplaceHour(dt) ==
    [dt EXCEPT !.hour = (dt.hour - STATION_OFFSET_HOURS) % 24]

\* The text display_time returns for a reading's timestamp text.
PalmerTimeText(timestamp) == Strftime(ReplaceHour(Strptime(timestamp)))

(***************************************************************************)
(* The external weather feed and the values fetched from it.               *)
(***************************************************************************)
\* Answers of the service: a current temperature (hundredths of a degree)
\* and the 15-minute samples (tenths of a degree).
FeedValues ==
    { [up |-> TRUE, current |-> -1234, table |-> <<-120, -123>>],
      [up |-> TRUE, current |-> 27, table |-> <<5, 3>>] }
FeedDown == [up |-> FALSE, current |-> 0, table |-> <<>>]
FeedStates == {FeedDown} \cup FeedValues

\* f"{x:.1f}": a value in hundredths rounded to tenths (no ties among FeedValues).
FormatTenths(h) == (h + 5) \div 10

(***************************************************************************)
(* The history buffer.                                                     *)
(***************************************************************************)
\* The deque object created at app.py:25; the reactive value holds this
\* reference and is never set again.
reactive_value_wrapper == "deque@25"

\* A faulty variant, against which the properties are tested: an append that never evicts.
DequeAppendUnbounded(d, x) == Append(d, x)

\* deque.append on a deque constructed with maxlen=DEQUE_SIZE.
DequeAppend(d, x) ==
    IF Len(d) = DEQUE_SIZE THEN Append(Tail(d), x) ELSE Append(d, x)

\* round(random.uniform(-18, 1), 1): the readings a tick may draw, in tenths.
Temps == {-160, 5}
SoakTemps == {-42}

\* pd.DataFrame(deque_snapshot): a frame that copies the rows.
DataFrame(rows) == [rows |-> rows, as_datetime |-> FALSE, best_fit_line |-> <<>>]

\* A faulty variant, against which the properties are tested: a timer that is due at once.
InvalidateAtOnce(secs) == now

\* The deadline of reactive.invalidate_later(secs) called now.
InvalidateLater(secs) == now + secs * SubSec

\* A faulty variant, against which the properties are tested: a calc that caches nothing and runs on every call.
NeedsRunOnEveryCall == TRUE

\* A reactive.calc runs its function only when it holds no valid value.
NeedsRun == ~calcValid

\* One execution of reactive_calc_combined's body drawing temperature temp:
\* the heap after the append and the returned tuple.
reactive_calc_combined(temp) ==
    LET new_dictionary_entry ==
            [temp |-> temp, timestamp |-> Strftime(DatetimeNow(now))]
        content == DequeAppend(heap[reactive_value_wrapper], new_dictionary_entry)
    IN [heap |-> [heap EXCEPT ![reactive_value_wrapper] = content],
        value |-> [deque_snapshot |-> reactive_value_wrapper,
                   df |-> DataFrame(content),
                   latest_dictionary_entry |-> new_dictionary_entry]]

(***************************************************************************)
(* The regression of display_plot.                                         *)
(***************************************************************************)
RECURSIVE SumTo(_, _)
SumTo(f, n) == IF n = 0 THEN 0 ELSE f[n] + SumTo(f, n - 1)

\* stats.linregress(x_vals, y_vals) for x_vals = 0 .. n-1: slope and intercept as
\* fractions over the same denominator den = n*Sxx - Sx^2.  A denominator 0 is the
\* 0.0/0.0 = nan that linregress returns for a single point.
linregress(y_vals) ==
    LET n == Len(y_vals)
        Sx == SumTo([i \in 1..n |-> i - 1], n)
        Sy == SumTo(y_vals, n)
        Sxx == SumTo([i \in 1..n |-> (i - 1) * (i - 1)], n)
        Sxy == SumTo([i \in 1..n |-> (i - 1) * y_vals[i]], n)
    IN [slope |-> n * Sxy - Sx * Sy, intercept |-> Sy * Sxx - Sx * Sxy,
        den |-> n * Sxx - Sx * Sx]

\* [slope * x + intercept for x in x_vals]
BestFitLine(y_vals) ==
    LET fit == linregress(y_vals)
    IN [i \in 1..Len(y_vals) |->
           [num |-> fit.slope * (i - 1) + fit.intercept, den |-> fit.den]]

\* The branch of display_plot that plots the readings: taken when not df.empty.
PlotsReadings(df) == Len(df.rows) > 0

\* df after display_plot has worked on it: the timestamp column converted and the
\* best_fit_line column added, in place.
PlottedFrame(df) ==
    IF PlotsReadings(df)
    THEN [df EXCEPT !.as_datetime = TRUE,
                    !.best_fit_line = BestFitLine([i \in 1..Len(df.rows) |-> df.rows[i].temp])]
    ELSE df

\* A view calls reactive_calc_combined(): the calc runs if it must, the view
\* becomes a dependent, and the tuple is cached.  df is an object the views
\* share: display_plot (plots = TRUE) works on it in place.
CallCalc(view, temp, plots) ==
    LET r == reactive_calc_combined(temp)
        value == IF NeedsRun THEN r.value ELSE calcValue
    IN /\ deps' = deps \cup {view}
       /\ calcValid' = TRUE
       /\ calcValue' = [value EXCEPT !.df = IF plots THEN PlottedFrame(value.df)
                                            ELSE value.df]
       /\ IF NeedsRun
          THEN /\ heap' = r.heap
               /\ calcTimer' = InvalidateLater(UPDATE_INTERVAL_SECS)
               /\ pushed' = Append(pushed, r.value.latest_dictionary_entry)
               /\ returned' = Append(returned, r.value.deque_snapshot)
          ELSE UNCHANGED <<heap, calcTimer, pushed, returned>>

NoCalc == UNCHANGED <<heap, calcValid, calcValue, calcTimer, pushed, returned, deps>>

(***************************************************************************)
(* The historical filter and the running average.                          *)
(***************************************************************************)
Intervals == {"1 Year", "5 years", "25 Years", "50 Years"}

\* A faulty variant, against which the properties are tested: a mask whose comparisons are strict.
KeepsRowStrictly(row, selected_interval, current_year, current_month) ==
    IF selected_interval = "1 Year"
    THEN (row.Year = current_year - 1 /\ row.Month > current_month)
         \/ row.Year = current_year
    ELSE IF selected_interval = "5 years" THEN row.Year > current_year - 5
    ELSE IF selected_interval = "25 Years" THEN row.Year > current_year - 25
    ELSE IF selected_interval = "50 Years" THEN row.Year > current_year - 50
    ELSE TRUE

\* The row mask of filtered_historical_df for the selected interval.
KeepsRow(row, selected_interval, current_year, current_month) ==
    IF selected_interval = "1 Year"
    THEN (row.Year = current_year - 1 /\ row.Month >= current_month)
         \/ row.Year = current_year
    ELSE IF selected_interval = "5 years" THEN row.Year >= current_year - 5
    ELSE IF selected_interval = "25 Years" THEN row.Year >= current_year - 25
    ELSE IF selected_interval = "50 Years" THEN row.Year >= current_year - 50
    ELSE TRUE

\* historical_df[mask]: the rows the mask keeps, in the frame's order.
FilterRows(rows, selected_interval, current_date) ==
    LET Keep(row) == KeepsRow(row, selected_interval,
                              current_date.year, current_date.month)
    IN SelectSeq(rows, Keep)

\* The window [start, end) of position i (0-based) that rolling(window, center=True)
\* uses over num_values values: the trailing window moved (window - 1) // 2 ahead.
WindowOffsetHalf(window) == window \div 2   \* faulty variant: a window centred later
WindowOffset(window) == (window - 1) \div 2
WindowStart(i, window, num_values) ==
    LET s == i + 1 + WindowOffset(window) - window
    IN IF s < 0 THEN 0 ELSE IF s > num_values THEN num_values ELSE s
WindowEnd(i, window, num_values) ==
    LET e == i + 1 + WindowOffset(window)
    IN IF e < 0 THEN 0 ELSE IF e > num_values THEN num_values ELSE e

RECURSIVE SumRange(_, _, _)
SumRange(vals, start, end) ==
    IF start >= end THEN 0 ELSE vals[start + 1] + SumRange(vals, start + 1, end)

\* series.rolling(window=ROLLING_WINDOW, center=True).mean(): position i+1 of the
\* result is nan unless its window holds min_periods = window values, and else
\* the mean as the fraction sum / count.
RollingMean(vals) ==
    [k \in 1..Len(vals) |->
        LET start == WindowStart(k - 1, ROLLING_WINDOW, Len(vals))
            end == WindowEnd(k - 1, ROLLING_WINDOW, Len(vals))
        IN IF end - start < ROLLING_WINDOW
           THEN [nan |-> TRUE, sum |-> 0, count |-> 0]
           ELSE [nan |-> FALSE, sum |-> SumRange(vals, start, end),
                 count |-> end - start]]

\* filtered_df after display_historical_plot has added Running_Avg, in place.
AveragedFrame(frame) ==
    [frame EXCEPT !.has_avg = TRUE,
                  !.Running_Avg = RollingMean([i \in 1..Len(frame.rows) |-> frame.rows[i].Temp])]

\* One execution of filtered_historical_df's body.
filtered_historical_df ==
    [rows |-> FilterRows(historical_df, input_time, DatetimeNow(now)),
     has_avg |-> FALSE, Running_Avg |-> <<>>]

\* A view calls filtered_historical_df(): the calc runs if it holds no valid
\* value, the view becomes a dependent, and the frame is cached.  The frame is an
\* object the views share: display_historical_plot (averages = TRUE) adds its
\* Running_Avg column to it in place.
CallFiltered(view, averages) ==
    LET value == IF filteredValid THEN filteredValue ELSE filtered_historical_df
    IN /\ histDeps' = histDeps \cup {view}
       /\ filteredValid' = TRUE
       /\ filteredValue' = IF averages THEN AveragedFrame(value) ELSE value

NoFiltered == UNCHANGED <<filteredValid, filteredValue, histDeps>>

(***************************************************************************)
(* The module script, the clock, the feed and the timers.                  *)
(***************************************************************************)
Views == {"display_temp", "display_temp_status", "display_time", "display_df",
          "display_plot", "display_historical_plot"}

\* app.py:25-81 run once when the session starts, the service answering feed.
\* openmeteo.weather_api (line 59) raises when the service cannot be reached, and
\* nothing catches it.
LoadModule ==
    /\ pc = "load"
    /\ \E feed \in FeedStates :
        IF feed.up
        THEN /\ pc' = "running"
             /\ current_temperature_2m' = feed.current
             /\ minutely_15_dataframe' = feed.table
        ELSE /\ pc' = "crashed"
             /\ UNCHANGED <<current_temperature_2m, minutely_15_dataframe>>
    /\ UNCHANGED <<now, heap, calcValid, calcValue, calcTimer, weatherTimer,
                   weatherStale, input_source, input_data, pushed, returned, ticks, viewVars, histVars>>

UnchangedButNow ==
    UNCHANGED <<pc, current_temperature_2m, minutely_15_dataframe, heap,
                calcValid, calcValue, calcTimer, weatherTimer, weatherStale,
                input_source, input_data, pushed, returned, ticks,
                viewVars, histVars>>

\* The reactive flush runs every invalidated effect and view to completion under
\* the session's lock: a timer callback or an input message is handled only once
\* nothing is left invalidated.  A flush is short: the clock is
\* read as moving between flushes.
Idle == pc = "running" /\ stale = {} /\ ~weatherStale


\* One clock unit passes: before the script runs (the phase of the session
\* within the second), or once the calc's timer is due (the timer fires late).
ElapseUnit ==
    /\ \/ pc = "load" /\ now < StartClock + SubSec
       \/ Idle /\ calcTimer # NoTimer /\ calcTimer <= now /\ now < calcTimer + SubSec
    /\ now' = now + 1
    /\ UnchangedButNow

\* Time passes until the calc's timer is due.
ElapseToTimer ==
    /\ Idle
    /\ calcTimer # NoTimer /\ now < calcTimer
    /\ now' = calcTimer
    /\ UnchangedButNow

\* The timer of reactive.invalidate_later(UPDATE_INTERVAL_SECS) fires: the calc
\* and every view that depends on it are invalidated.
CalcTimerFire(maxTicks) ==
    /\ Idle
    /\ calcTimer # NoTimer /\ now >= calcTimer
    /\ ticks < maxTicks
    /\ calcTimer' = NoTimer
    /\ calcValid' = FALSE
    /\ stale' = stale \cup deps
    /\ deps' = {}
    /\ ticks' = ticks + 1
    /\ UNCHANGED <<pc, now, current_temperature_2m, minutely_15_dataframe, heap,
                   calcValue, weatherTimer, weatherStale, input_source, input_data,
                   pushed, returned, out, histVars>>

\* The timer of update_weather's reactive.invalidate_later(900) fires: the effect
\* is invalidated.  The period is 300 periods of the calc's timer; the model lets
\* the pending timer fire between any two flushes.
WeatherTimerFire ==
    /\ Idle
    /\ weatherTimer
    /\ weatherTimer' = FALSE
    /\ weatherStale' = TRUE
    /\ UNCHANGED <<pc, now, current_temperature_2m, minutely_15_dataframe, heap,
                   calcValid, calcValue, calcTimer, input_source, input_data, pushed,
                   returned, ticks, viewVars, histVars>>

\* A faulty variant, against which the properties are tested: an effect that fetches the feed again.
update_weather_refetching ==
    /\ pc = "running"
    /\ weatherStale
    /\ weatherStale' = FALSE
    /\ weatherTimer' = TRUE
    /\ \E feed \in FeedValues :
        /\ current_temperature_2m' = feed.current
        /\ minutely_15_dataframe' = feed.table
    /\ UNCHANGED <<pc, now, heap, calcValid, calcValue, calcTimer, input_source,
                   input_data, pushed, returned, ticks, viewVars, histVars>>

\* The effect update_weather runs: its body only re-arms its timer.
update_weather ==
    /\ pc = "running"
    /\ weatherStale
    /\ weatherStale' = FALSE
    /\ weatherTimer' = TRUE
    /\ UNCHANGED <<pc, now, current_temperature_2m, minutely_15_dataframe, heap,
                   calcValid, calcValue, calcTimer, input_source, input_data, pushed,
                   returned, ticks, viewVars, histVars>>

(***************************************************************************)
(* The selections of the sidebar.                                          *)
(***************************************************************************)
Sources == {"OpenMeteo API", "Random"}
DataSources == {"OpenMeteo API", "Random", "Historical Data"}

\* The views that read input.source(), and the one that reads input.data().
SourceReaders == {"display_temp", "display_temp_status", "display_plot"}
DataReaders == {"display_df"}

Invalidate(views) ==
    /\ stale' = stale \cup views
    /\ deps' = deps \ views
    /\ histDeps' = histDeps \ views

SetSource ==
    /\ Idle
    /\ \E v \in Sources \ {input_source} : input_source' = v
    /\ Invalidate(SourceReaders)
    /\ UNCHANGED <<pc, now, current_temperature_2m, minutely_15_dataframe, heap,
                   calcValid, calcValue, calcTimer, weatherTimer, weatherStale,
                   input_data, pushed, returned, ticks, out,
                   historical_df, input_time, filteredValid, filteredValue>>

SetData ==
    /\ Idle
    /\ \E v \in DataSources \ {input_data} : input_data' = v
    /\ Invalidate(DataReaders)
    /\ UNCHANGED <<pc, now, current_temperature_2m, minutely_15_dataframe, heap,
                   calcValid, calcValue, calcTimer, weatherTimer, weatherStale,
                   input_source, pushed, returned, ticks, out,
                   historical_df, input_time, filteredValid, filteredValue>>

\* input.time() changes: filtered_historical_df and its dependents are invalidated.
SetTime ==
    /\ Idle
    /\ \E v \in Intervals \ {input_time} : input_time' = v
    /\ filteredValid' = FALSE
    /\ stale' = stale \cup histDeps
    /\ deps' = deps \ histDeps
    /\ histDeps' = {}
    /\ UNCHANGED <<pipeVars, out, historical_df, filteredValue>>

(***************************************************************************)
(* The views.  Each runs when it is invalidated, in any order.             *)
(***************************************************************************)
Render(view, value) ==
    /\ stale' = stale \ {view}
    /\ out' = [out EXCEPT ![view] = value]

\* The status text for a temperature given in 1/scale degrees.
StatusText(temp, scale) ==
    IF temp > 0 THEN "Warmer than Usual"
    ELSE IF temp > (0 - 15) * scale THEN "Average Temperatures"
    ELSE "Colder than Usual"

display_temp(temps) ==
    /\ pc = "running"
    /\ "display_temp" \in stale
    /\ IF input_source = "OpenMeteo API"
       THEN /\ NoCalc
            /\ Render("display_temp",
                      [kind |-> "text", source |-> input_source,
                       text |-> <<FormatTenths(current_temperature_2m), "C">>])
       ELSE \E temp \in temps :
            /\ CallCalc("display_temp", temp, FALSE)
            /\ Render("display_temp",
                      [kind |-> "text", source |-> input_source,
                       text |-> <<calcValue'.latest_dictionary_entry.temp, "C">>])
    /\ UNCHANGED <<envVars, filteredValid, filteredValue, histDeps>>

display_temp_status(temps) ==
    /\ pc = "running"
    /\ "display_temp_status" \in stale
    /\ IF input_source = "OpenMeteo API"
       THEN /\ NoCalc
            /\ Render("display_temp_status",
                      [kind |-> "text", source |-> input_source,
                       text |-> StatusText(current_temperature_2m, 100)])
       ELSE \E temp \in temps :
            /\ CallCalc("display_temp_status", temp, FALSE)
            /\ Render("display_temp_status",
                      [kind |-> "text", source |-> input_source,
                       text |-> StatusText(calcValue'.latest_dictionary_entry.temp, 10)])
    /\ UNCHANGED <<envVars, filteredValid, filteredValue, histDeps>>

display_time(temps) ==
    /\ pc = "running"
    /\ "display_time" \in stale
    /\ \E temp \in temps :
        /\ CallCalc("display_time", temp, FALSE)
        /\ Render("display_time",
                  [kind |-> "text",
                   reading |-> calcValue'.latest_dictionary_entry.timestamp,
                   text |-> PalmerTimeText(calcValue'.latest_dictionary_entry.timestamp)])
    /\ UNCHANGED <<envVars, filteredValid, filteredValue, histDeps>>

display_df(temps) ==
    /\ pc = "running"
    /\ "display_df" \in stale
    /\ IF input_data = "OpenMeteo API"
       THEN /\ NoCalc /\ NoFiltered
            /\ Render("display_df",
                      [kind |-> "grid", source |-> input_data,
                       rows |-> minutely_15_dataframe])
       ELSE IF input_data = "Random"
       THEN /\ NoFiltered
            /\ \E temp \in temps :
                /\ CallCalc("display_df", temp, FALSE)
                /\ Render("display_df",
                          [kind |-> "grid", source |-> input_data,
                           rows |-> calcValue'.df.rows,
                           best_fit_line |-> calcValue'.df.best_fit_line])
       ELSE /\ NoCalc
            /\ CallFiltered("display_df", FALSE)
            /\ Render("display_df",
                      [kind |-> "grid", source |-> input_data,
                       rows |-> filteredValue'.rows,
                       Running_Avg |-> filteredValue'.Running_Avg])
    /\ UNCHANGED envVars

display_plot(temps) ==
    /\ pc = "running"
    /\ "display_plot" \in stale
    /\ IF input_source = "OpenMeteo API"
       THEN /\ NoCalc
            /\ Render("display_plot",
                      [kind |-> "plot", source |-> input_source,
                       title |-> "OpenMeteo Temperature Readings",
                       points |-> minutely_15_dataframe,
                       regression_line |-> FALSE, line |-> <<>>])
       ELSE \E temp \in temps :
            /\ CallCalc("display_plot", temp, TRUE)
            /\ Render("display_plot",
                      IF PlotsReadings(calcValue'.df)
                      THEN [kind |-> "plot", source |-> input_source,
                            title |-> "Temperature Readings with Regression Line",
                            points |-> calcValue'.df.rows,
                            regression_line |-> TRUE,
                            line |-> calcValue'.df.best_fit_line]
                      ELSE [kind |-> "plot", source |-> input_source, title |-> "",
                            points |-> <<>>, regression_line |-> FALSE, line |-> <<>>])
    /\ UNCHANGED <<envVars, filteredValid, filteredValue, histDeps>>

display_historical_plot ==
    /\ pc = "running"
    /\ "display_historical_plot" \in stale
    /\ NoCalc
    /\ CallFiltered("display_historical_plot", TRUE)
    /\ Render("display_historical_plot",
              [kind |-> "plot", title |-> "Historical Temperature Readings",
               points |-> filteredValue'.rows,
               running_avg |-> filteredValue'.Running_Avg])
    /\ UNCHANGED envVars

(***************************************************************************)
(* Specifications.                                                         *)
(***************************************************************************)
NoReading == [temp |-> 0, timestamp |-> <<0, 0, 0, 0, 0, 0>>]

\* The state the reactive graph starts in; the script has yet to run.
InitSession ==
    /\ pc = "load"
    /\ current_temperature_2m = 0
    /\ minutely_15_dataframe = <<>>
    /\ heap = [r \in {reactive_value_wrapper} |-> <<>>]
    /\ calcValid = FALSE
    /\ calcValue = [deque_snapshot |-> reactive_value_wrapper,
                    df |-> DataFrame(<<>>), latest_dictionary_entry |-> NoReading]
    /\ calcTimer = NoTimer
    /\ weatherTimer = FALSE
    /\ weatherStale = TRUE
    /\ input_source = "OpenMeteo API"
    /\ input_data = "OpenMeteo API"
    /\ input_time = "25 Years"
    /\ stale = Views
    /\ deps = {}
    /\ out = [v \in Views |-> [kind |-> "none"]]
    /\ filteredValid = FALSE
    /\ filteredValue = [rows |-> <<>>, has_avg |-> FALSE, Running_Avg |-> <<>>]
    /\ histDeps = {}
    /\ pushed = <<>>
    /\ returned = <<>>
    /\ ticks = 0

Row(y, m, t) == [Year |-> y, Month |-> m, Temp |-> t]

\* The live pipeline, with a short historical file.
Init ==
    /\ InitSession
    /\ now = StartClock
    /\ historical_df = <<Row(1998, 3, -20), Row(1999, 2, -31), Row(2024, 1, 12)>>

Next ==
    \/ LoadModule
    \/ ElapseUnit
    \/ ElapseToTimer
    \/ CalcTimerFire(MaxTicks)
    \/ WeatherTimerFire
    \/ update_weather
    \/ SetSource
    \/ SetData
    \/ display_temp(Temps)
    \/ display_temp_status(Temps)
    \/ display_time(Temps)
    \/ display_df(Temps)
    \/ display_plot(Temps)
    \/ display_historical_plot

Spec == Init /\ [][Next]_vars

\* The live pipeline with one temperature for every reading, where the flush is
\* fair: it runs every invalidated effect and view.
Flush ==
    \/ update_weather
    \/ display_temp(SoakTemps)
    \/ display_temp_status(SoakTemps)
    \/ display_time(SoakTemps)
    \/ display_df(SoakTemps)
    \/ display_plot(SoakTemps)
    \/ display_historical_plot

NextFair ==
    \/ LoadModule
    \/ ElapseUnit
    \/ ElapseToTimer
    \/ CalcTimerFire(MaxTicks)
    \/ WeatherTimerFire
    \/ SetSource
    \/ SetData
    \/ Flush

FairSpec == Init /\ [][NextFair]_vars /\ WF_vars(Flush)

\* A soak run of the live pipeline: one temperature for every reading and the
\* calc's timer firing on time, until the buffer is past its capacity.
NextBuffer ==
    \/ LoadModule
    \/ ElapseToTimer
    \/ CalcTimerFire(MaxSoakTicks)
    \/ SetSource
    \/ SetData
    \/ Flush

SpecBuffer == Init /\ [][NextBuffer]_vars

\* The historical file: free-form files of a few rows around the filter's
\* thresholds, and monthly files of consecutive months from January 2023.
PoolYears == {1974, 1999, 2019, 2023, 2024}
PoolMonths == {2, 3}
Pool == {Row(y, m, 0) : y \in PoolYears, m \in PoolMonths}

RECURSIVE SeqsUpTo(_, _)
SeqsUpTo(S, n) ==
    IF n = 0 THEN {<<>>}
    ELSE LET shorter == SeqsUpTo(S, n - 1)
         IN shorter \cup {Append(q, x) : q \in shorter, x \in S}

MonthlyFile(len, shape) ==
    [i \in 1..len |->
        Row(2023 + ((i - 1) \div 12), 1 + ((i - 1) % 12),
            IF shape = "flat" THEN 7 ELSE i * i - 20)]

HistDatasets ==
    SeqsUpTo(Pool, MaxRecs)
        \cup {MonthlyFile(len, shape) : len \in 0..MaxRunLen, shape \in {"flat", "curve"}}

\* 2024-02-29 23:59:58, 2024-03-01 00:00:00 and 2025-01-01 23:59:58.
HistInstants ==
    {StartClock, StartClock + 2 * SubSec, StartClock + 307 * 86400 * SubSec}

InitHist ==
    /\ InitSession
    /\ now \in HistInstants
    /\ historical_df \in HistDatasets

NextHist ==
    \/ LoadModule
    \/ SetData
    \/ SetTime
    \/ Flush

SpecHist == InitHist /\ [][NextHist]_vars

(***************************************************************************)
(* Properties of the live pipeline.                                        *)
(***************************************************************************)
Buffer == heap[reactive_value_wrapper]
MinOf(a, b) == IF a < b THEN a ELSE b

\* The last n elements of s, in order.
LastN(s, n) == SubSeq(s, Len(s) - MinOf(Len(s), n) + 1, Len(s))

\* Timestamp texts compare as their fields do, left to right.
RECURSIVE TextLess(_, _, _)
TextLess(a, b, i) ==
    IF i > Len(a) THEN FALSE
    ELSE IF a[i] # b[i] THEN a[i] < b[i]
    ELSE TextLess(a, b, i + 1)

PrevDay(y, m, d) ==
    IF d > 1 THEN <<y, m, d - 1>>
    ELSE IF m > 1 THEN <<y, m - 1, DaysInMonth(y, m - 1)>>
    ELSE <<y - 1, 12, 31>>

\* The instant three hours before the one a timestamp text names.
ThreeHoursBefore(ts) ==
    LET date == IF ts[4] < 3 THEN PrevDay(ts[1], ts[2], ts[3])
                ELSE <<ts[1], ts[2], ts[3]>>
    IN <<date[1], date[2], date[3], (ts[4] - 3) % 24, ts[5], ts[6]>>

\* C2: display_time shows the reading's instant moved three hours back: the hour
\* is (hour - 3) mod 24, the date is the previous day for the hours 0, 1 and 2,
\* and minutes and seconds are the reading's.
C2_StationTimeRollsBack ==
    out["display_time"].kind = "text"
        => out["display_time"].text = ThreeHoursBefore(out["display_time"].reading)

\* C3: the deque_snapshot returned by the k-th execution of the calc still holds
\* exactly the readings pushed up to that execution, whatever was pushed since.
C3_SnapshotUnchangedByLaterPushes ==
    \A k \in 1..Len(returned) :
        heap[returned[k]] = LastN(SubSeq(pushed, 1, k), DEQUE_SIZE)

\* C4: the live-data plot of the readings has a regression line only when it
\* was computed from at least 2 points.
C4_RegressionNeedsTwoPoints ==
    (out["display_plot"].kind = "plot" /\ out["display_plot"].source = "Random")
        => (out["display_plot"].regression_line
                <=> Len(out["display_plot"].points) >= 2)

\* C5: an unavailable feed never leads to a crashed session.
C5_FeedUnavailableNeverCrashes == pc # "crashed"

C6_Counts ==
    /\ Len(pushed) = ticks + (IF calcValid THEN 1 ELSE 0)
    /\ (pc = "running" /\ ~calcValid) => "display_time" \in stale
    /\ Idle => calcValid

C6_Step ==
    /\ Len(pushed') \in {Len(pushed), Len(pushed) + 1}
    /\ Buffer' # Buffer <=> pushed' # pushed
    /\ pushed' # pushed => ~calcValid /\ calcValid' /\ ticks' = ticks
    /\ ticks' # ticks => /\ ticks' = ticks + 1
                         /\ calcValid /\ ~calcValid'
                         /\ pushed' = pushed
                         /\ deps \subseteq stale'

\* C6: the buffer changes only when the calc runs after its timer fired, once per
\* fire: the readings appended number the fires (plus the first run), a view
\* that reads a valid calc appends nothing, and a fire invalidates the calc and
\* every view that depends on it, which all run before the next event.
C6_OneAppendPerTick ==
    /\ []C6_Counts
    /\ [][C6_Step]_vars
    /\ (pc = "running" /\ ~calcValid) ~> (calcValid /\ stale = {})

C6_Witness ==
    /\ ticks = MaxTicks /\ Len(pushed) = MaxTicks + 1
    /\ input_source = "Random" /\ input_data = "Random"
    /\ deps = Views \ {"display_historical_plot"}

\* C9: the timestamps of the readings in the buffer strictly increase from the
\* oldest to the newest.
C9_TimestampsIncrease ==
    \A i \in 1..(Len(Buffer) - 1) :
        TextLess(Buffer[i].timestamp, Buffer[i + 1].timestamp, 1)

C9_Witness ==
    /\ Len(Buffer) = MaxTicks + 1
    /\ Buffer[1].timestamp[3] # Buffer[Len(Buffer)].timestamp[3]

C10_Shown ==
    /\ (out["display_temp"].kind = "text"
            /\ out["display_temp"].source = "OpenMeteo API")
        => out["display_temp"].text = <<FormatTenths(current_temperature_2m), "C">>
    /\ (out["display_df"].kind = "grid" /\ out["display_df"].source = "OpenMeteo API")
        => out["display_df"].rows = minutely_15_dataframe

C10_Step ==
    /\ pc = "running" => /\ current_temperature_2m' = current_temperature_2m
                         /\ minutely_15_dataframe' = minutely_15_dataframe
    /\ (weatherStale' # weatherStale \/ weatherTimer' # weatherTimer)
        => heap' = heap /\ calcValue' = calcValue /\ out' = out

C1_BufferHoldsLastReadings ==
    LET N == Len(pushed)
        L == Len(Buffer)
    IN /\ N = ticks + (IF calcValid THEN 1 ELSE 0)
       /\ L = MinOf(N, DEQUE_SIZE)
       /\ \A i \in 1..L : Buffer[i] = pushed[N - L + i]

C1_Witness ==
    /\ Len(pushed) > DEQUE_SIZE + 1
    /\ Len(Buffer) = DEQUE_SIZE
    /\ Buffer[1] # pushed[1]

(***************************************************************************)
(* Properties of the historical filter.                                    *)
(***************************************************************************)
\* The rows an interval selects at year Y and month M.
Selected(row, interval, Y, M) ==
    CASE interval = "1 Year" ->
            (row.Year = Y - 1 /\ row.Month >= M) \/ row.Year = Y
      [] interval = "5 years" -> row.Year >= Y - 5
      [] interval = "25 Years" -> row.Year >= Y - 25
      [] interval = "50 Years" -> row.Year >= Y - 50

\* The j-th smallest member of a set of indices.
NthIndex(I, j) == CHOOSE i \in I : Cardinality({k \in I : k <= i}) = j

\* C7: the frame filtered_historical_df holds is made of exactly the rows the
\* selected interval selects at the current year and month, in the file's order
\* (no rows when none is selected).
C7_FilterSelectsExactly ==
    filteredValid =>
        LET today == DatetimeNow(now)
            I == {i \in 1..Len(historical_df) :
                    Selected(historical_df[i], input_time, today.year, today.month)}
            rows == filteredValue.rows
        IN /\ Len(rows) = Cardinality(I)
           /\ \A j \in 1..Len(rows) : rows[j] = historical_df[NthIndex(I, j)]

C7_Witness ==
    /\ filteredValid
    /\ input_time = "1 Year"
    /\ Len(filteredValue.rows) = 1
    /\ Len(historical_df) = 2
    /\ filteredValue.rows[1] = historical_df[2]
    /\ filteredValue.rows[1].Year = DatetimeNow(now).year - 1

RECURSIVE TempSum(_, _, _)
TempSum(rows, first, last) ==
    IF first > last THEN 0 ELSE rows[first].Temp + TempSum(rows, first + 1, last)

\* Running_Avg of a frame of L rows is undefined at the positions before lead
\* and at the last 5, and at every other position i (0-based) it is the mean of
\* the 12 values at the positions i-6 .. i+5.
RunningAvgIs(frame, lead) ==
    LET L == Len(frame.rows)
    IN /\ Len(frame.Running_Avg) = L
       /\ \A k \in 1..L :
            LET i == k - 1
                avg == frame.Running_Avg[k]
            IN IF i < lead \/ i > L - 6
               THEN avg.nan
               ELSE /\ ~avg.nan
                    /\ i >= 6 => /\ avg.count = 12
                                 /\ avg.sum = TempSum(frame.rows, k - 6, k + 5)

\* C8 as claimed: the running average is undefined exactly at the first 5 and
\* the last 5 positions.
C8_UndefinedAtFirstFiveAndLastFive ==
    filteredValue.has_avg => RunningAvgIs(filteredValue, 5)

\* C8 as amended: the running average is undefined exactly at the first 6 and
\* the last 5 positions (everywhere when the slice has fewer than 12 rows), and
\* at every other position i it is the mean of the values at i-6 .. i+5.
C8_UndefinedAtFirstSixAndLastFive ==
    filteredValue.has_avg => RunningAvgIs(filteredValue, 6)

C8_Witness ==
    /\ filteredValue.has_avg
    /\ Len(filteredValue.rows) = 13
    /\ ~filteredValue.Running_Avg[7].nan
    /\ ~filteredValue.Running_Avg[8].nan
    /\ filteredValue.rows[1].Temp # filteredValue.rows[2].Temp

====
